---------------------------- MODULE Spec2Model ----------------------------
(***************************************************************************)
(* A model of app.py, the Streamlit music recommender: load_data, the      *)
(* title lookup and ranking of recommend, the artist filter of the         *)
(* should_run block, and the two memoised Spotify lookups search_track and *)
(* audio_features.                                                         *)
(*                                                                         *)
(* Python values are represented as follows.  A str is a sequence of       *)
(* one-character strings, so that strip and concatenation are computed.    *)
(* A list is a sequence; the row label i of the table (a RangeIndex,       *)
(* 0-based) is position i + 1 of the sequence.  A cell of the unpickled    *)
(* table is tagged: [t |-> "str", v |-> chars] or [t |-> "int", v |-> n].  *)
(***************************************************************************)
EXTENDS Integers, Sequences, FiniteSets, TLC

\* ------------------------------------------------------------- bounds
MaxSongs == 3      \* rows of the song table (engine and lookup runs)
MaxDim == 3        \* dimension of the similarity matrix (engine and lookup runs)
MaxScore == 1      \* similarity scores are 0..MaxScore (engine runs)
MaxK == 3          \* largest k handed to recommend directly
MaxNegK == 2       \* recommend is also called with k down to -MaxNegK

\* ----------------------------------------------------- Python helpers
Whitespace == {" ", "\t", "\n"}

RECURSIVE LStrip(_, _)
LStrip(s, chars) ==
    IF s # <<>> /\ Head(s) \in chars THEN LStrip(Tail(s), chars) ELSE s

RECURSIVE RStrip(_, _)
RStrip(s, chars) ==
    IF s # <<>> /\ s[Len(s)] \in chars
    THEN RStrip(SubSeq(s, 1, Len(s) - 1), chars)
    ELSE s

\* str.strip(chars): drop leading and trailing characters that are in chars
StripChars(s, chars) == RStrip(LStrip(s, chars), chars)

\* str.strip(): drop leading and trailing whitespace
Strip(s) == StripChars(s, Whitespace)

Digit(n) == <<"0", "1", "2", "3", "4", "5", "6", "7", "8", "9">>[n + 1]

RECURSIVE Decimal(_)
Decimal(n) == IF n < 10 THEN <<Digit(n)>> ELSE Decimal(n \div 10) \o <<Digit(n % 10)>>

\* str(x) and Series.astype(str) on one cell
PyStr(x) ==
    IF x.t = "str" THEN x.v
    ELSE IF x.v < 0 THEN <<"-">> \o Decimal(0 - x.v) ELSE Decimal(x.v)

StrCell(s) == [t |-> "str", v |-> s]
IntCell(n) == [t |-> "int", v |-> n]

\* seq[start:stop] of Python, start and stop any integers
PySlice(s, start, stop) ==
    LET n == Len(s)
        Norm(i) == IF i < 0 THEN (IF i + n < 0 THEN 0 ELSE i + n)
                   ELSE (IF i > n THEN n ELSE i)
        lo == Norm(start)
        hi == Norm(stop)
    IN  IF lo < hi THEN SubSeq(s, lo + 1, hi) ELSE <<>>

\* enumerate(row): the pairs <<index, score>>, index from 0
Enumerate(row) == [p \in 1..Len(row) |-> <<p - 1, row[p]>>]

\* x placed behind every element whose key is >= its own: a stable insertion
InsertDesc(sorted, x) ==
    LET ahead == {p \in 1..Len(sorted) : sorted[p][2] >= x[2]}
        cut == IF ahead = {} THEN 0 ELSE CHOOSE p \in ahead : \A q \in ahead : q <= p
    IN  SubSeq(sorted, 1, cut) \o <<x>> \o SubSeq(sorted, cut + 1, Len(sorted))

RECURSIVE SortFrom(_, _)
SortFrom(done, rest) ==
    IF rest = <<>> THEN done ELSE SortFrom(InsertDesc(done, Head(rest)), Tail(rest))

\* sorted(pairs, key=lambda x: x[1], reverse=True): descending by score, and
\* stable, so pairs of equal score keep their input (ascending index) order
SortedByScoreDesc(pairs) == SortFrom(<<>>, pairs)

Range(s) == {s[p] : p \in 1..Len(s)}

\* -------------------------------------------------------------- state
VARIABLES
    df,          \* what df.pkl unpickles to, or its absence
    simPkl,      \* what similarity.pkl unpickles to, or its absence
    status,      \* "boot" before load_data, then "ready", or "stopped" by st.stop()
    music,       \* the table load_data returns: rows [song, artist, display]
    similarity,  \* the matrix load_data returns: a sequence of rows of scores
    ret,         \* the last direct call of recommend and what it did
    view,        \* the last pass through the should_run block and what it did
    searchCache, \* st.cache_data of search_track: key -> entry
    searchCalls, \* sp.search requests issued, per key
    featCache,   \* st.cache_data of audio_features: track id -> entry
    featCalls,   \* sp.audio_features requests issued, per track id
    lookup       \* the last gateway call and what it did

vars == <<df, simPkl, status, music, similarity, ret, view,
          searchCache, searchCalls, featCache, featCalls, lookup>>

catalogVars == <<df, simPkl, status, music, similarity>>
gatewayVars == <<searchCache, searchCalls, featCache, featCalls, lookup>>

NoFile == [exists |-> FALSE]
Pickle(x) == [exists |-> TRUE, data |-> x]

\* --------------------------------------------------------- load_data
EmDash == "em-dash"   \* the one character U+2014
Sep == <<" ", EmDash, " ">>

\* one row of the table load_data returns
LoadedRow(columns, r) ==
    LET song == PyStr(r["song"])
        artist == IF "artist" \in columns THEN PyStr(r["artist"]) ELSE <<>>
    IN  [song |-> song,
         artist |-> artist,
         display |-> StripChars(song \o Sep \o artist, {" ", EmDash})]

LoadData ==
    /\ status = "boot"
    /\ IF ~df.exists \/ ~simPkl.exists
       THEN \* _load_pickle: st.error, st.stop
            /\ status' = "stopped"
            /\ UNCHANGED <<music, similarity>>
       ELSE IF "song" \notin df.data.columns
       THEN /\ status' = "stopped"
            /\ UNCHANGED <<music, similarity>>
       ELSE /\ status' = "ready"
            /\ music' = [p \in 1..Len(df.data.rows) |->
                            LoadedRow(df.data.columns, df.data.rows[p])]
            /\ similarity' = simPkl.data
    /\ UNCHANGED <<df, simPkl, ret, view>>
    /\ UNCHANGED gatewayVars

\* --------------------------------------------------------- recommend
NoIndex == 0 - 1   \* None of _index_of_song: no row label is negative

\* music.index[music["song"] == str(title)]
Matches(title) == {p - 1 : p \in {q \in 1..Len(music) : music[q].song = PyStr(title)}}

\* a lookup that falls back to the first row when nothing matches
_index_of_song_first_row(title) ==
    LET matches == Matches(title)
    IN  IF matches # {} THEN CHOOSE i \in matches : \A j \in matches : i <= j
        ELSE 0

_index_of_song(title) ==
    LET matches == Matches(title)
    IN  IF matches # {} THEN CHOOSE i \in matches : \A j \in matches : i <= j
        ELSE NoIndex

\* what recommend(seed_title, k) does: its return value, or the IndexError of
\* similarity[idx], and whether it read the matrix
recommend(seed_title, k) ==
    LET idx == _index_of_song(seed_title)
    IN  IF idx = NoIndex
        THEN [out |-> "return", idx |-> idx, read |-> FALSE, recs |-> <<>>]
        ELSE IF idx >= Len(similarity)
        THEN [out |-> "IndexError", idx |-> idx, read |-> TRUE, recs |-> <<>>]
        ELSE LET ranked == SortedByScoreDesc(Enumerate(similarity[idx + 1]))
                 top == PySlice(ranked, 1, k + 1)
             IN  [out |-> "return", idx |-> idx, read |-> TRUE,
                  recs |-> [p \in 1..Len(top) |-> top[p][1]]]

NoCall == [called |-> FALSE]

Recommend(seed_title, k) ==
    /\ status = "ready"
    /\ ret' = [called |-> TRUE, seed_title |-> seed_title, k |-> k,
               res |-> recommend(seed_title, k)]
    /\ UNCHANGED <<view>>
    /\ UNCHANGED catalogVars
    /\ UNCHANGED gatewayVars

\* ------------------------------------------------- sidebar widgets
SliderMin == 3       \* st.slider("How many recommendations?", 3, 10, 6, 1)
SliderMax == 10

NoFilter == <<"(", "n", "o", " ", "f", "i", "l", "t", "e", "r", ")">>

\* {a for a in music["artist"] if a.strip()}: the selectbox offers these, sorted
artists == {a \in {music[p].artist : p \in 1..Len(music)} : Strip(a) # <<>>}

\* passes_artist(i) for a row label the table has (music.at raises KeyError
\* for any other)
passes_artist(i, artist_filter) ==
    IF artist_filter = NoFilter THEN TRUE
    ELSE Strip(music[i + 1].artist) = artist_filter

\* ------------------------------------------------- should_run block
\* the block with the filter ahead of the cut to k: the rows of the artist, best first
ShouldRunFilterFirst(sel_idx, top_k, artist_filter) ==
    LET seed_song == music[sel_idx + 1].song
        r == recommend(StrCell(seed_song), top_k)
        all == recommend(StrCell(seed_song), Len(music))
        valid(i) == i < Len(music)
        keep(i) == passes_artist(i, artist_filter)
    IN  IF r.out # "return"
        THEN [out |-> r.out, ranked |-> <<>>, recs |-> <<>>]
        ELSE IF \E i \in Range(all.recs) : ~valid(i)
        THEN [out |-> "KeyError", ranked |-> r.recs, recs |-> <<>>]
        ELSE [out |-> "return", ranked |-> r.recs,
              recs |-> IF artist_filter # NoFilter
                       THEN PySlice(SelectSeq(all.recs, keep), 0, top_k)
                       ELSE r.recs]

\* recs = recommend(seed_song, k=top_k), then the filter, then one card per
\* remaining row.  The filter's music.at[i, "artist"] and render_card's
\* music.at[i, "song"] raise KeyError for a label the table does not have.
\* What render_card fetches is the gateway's business (SearchTrack,
\* AudioFeatures below) and changes nothing here.
ShouldRun(sel_idx, top_k, artist_filter) ==
    LET seed_song == music[sel_idx + 1].song
        r == recommend(StrCell(seed_song), top_k)
        valid(i) == i < Len(music)
        keep(i) == passes_artist(i, artist_filter)
    IN  IF r.out # "return"
        THEN [out |-> r.out, ranked |-> <<>>, recs |-> <<>>]
        ELSE IF \E i \in Range(r.recs) : ~valid(i)
        THEN [out |-> "KeyError", ranked |-> r.recs, recs |-> <<>>]
        ELSE [out |-> "return", ranked |-> r.recs,
              recs |-> IF artist_filter # NoFilter
                       THEN SelectSeq(r.recs, keep)
                       ELSE r.recs]

NoRun == [ran |-> FALSE]

\* a rerun of the script by the Recommend button, with the widgets as they
\* stand.  Changing a widget reruns the script first (Rerun), which clears the
\* page, so a click follows a page without recommendations or repeats itself.
Run(sel_idx, top_k, artist_filter) ==
    /\ status = "ready"
    /\ view = NoRun
    /\ sel_idx \in 0..(Len(music) - 1)
    /\ top_k \in SliderMin..SliderMax
    /\ artist_filter \in {NoFilter} \cup artists
    /\ view' = [ran |-> TRUE, sel_idx |-> sel_idx, top_k |-> top_k,
                artist_filter |-> artist_filter,
                res |-> ShouldRun(sel_idx, top_k, artist_filter)]
    /\ UNCHANGED <<ret>>
    /\ UNCHANGED catalogVars
    /\ UNCHANGED gatewayVars

\* a rerun of the script by anything but the button: run_btn is False, the
\* block is skipped and the page shows no recommendations
Rerun ==
    /\ status = "ready"
    /\ view # NoRun
    /\ view' = NoRun
    /\ UNCHANGED <<ret>>
    /\ UNCHANGED catalogVars
    /\ UNCHANGED gatewayVars

\* ------------------------------------------------- Python outcomes
None == [none |-> TRUE]
Some(x) == [none |-> FALSE, v |-> x]

Return(x) == [out |-> "return", value |-> x]
Raise(e) == [out |-> "raise", exc |-> e]

\* the exception classes that occur here; each derives from Exception
ExceptionClasses ==
    {"ReadTimeout", "SpotifyOauthError", "SpotifyException", "AttributeError"}

\* a clause that names the client's own error class only
ExceptSpotifyException(e) == e = "SpotifyException"

\* except Exception: which raised classes the clause catches
ExceptException(e) == e \in ExceptionClasses

\* ------------------------------------------------------ st.cache_data
Miss == [cached |-> FALSE]
Hit(x) == [cached |-> TRUE, value |-> x]

\* st.cache_data stores what the function returns, None included, under the
\* call's arguments; a raised exception stores nothing.  No ttl and no
\* max_entries are given, so an entry stays until the process ends.
\* a memo that keeps only what was found, so that a None is computed again
CacheAfterFoundOnly(cache, key, outcome) ==
    IF outcome.out = "return" /\ ~outcome.value.none
    THEN [cache EXCEPT ![key] = Hit(outcome.value)]
    ELSE cache

CacheAfter(cache, key, outcome) ==
    IF outcome.out = "return"
    THEN [cache EXCEPT ![key] = Hit(outcome.value)]
    ELSE cache

MaxCalls == 2        \* requests per key the model lets the provider see

\* ------------------------------------------------------- search_track
TrackIds == {"t1", "t2"}
Track(id) == [id |-> id]

\* what sp.search can do: raise, or return something
SearchResponses ==
    {Raise(e) : e \in {"ReadTimeout", "SpotifyOauthError", "SpotifyException"}}
    \cup {[out |-> "return", shape |-> "dict", items |-> <<>>]}
    \cup {[out |-> "return", shape |-> "dict", items |-> <<Track(id)>>] : id \in TrackIds}
    \cup {[out |-> "return", shape |-> sh, items |-> <<>>] :
             sh \in {"None", "empty dict", "tracks is None"}}

\* q = f"track:{song}", plus f" artist:{artist}" if artist.strip()
Query(song, artist) ==
    <<"track:", song>> \o (IF Strip(artist) # <<>> THEN <<" artist:", artist>> ELSE <<>>)

\* the try block of search_track, given what sp.search did
SearchTry(resp) ==
    IF resp.out = "raise" THEN Raise(resp.exc)
    ELSE IF resp.shape \in {"None", "tracks is None"}
    THEN Raise("AttributeError")       \* None has no .get
    ELSE IF resp.shape = "empty dict"
    THEN Return(None)                  \* .get("tracks", {}).get("items", []) is []
    ELSE IF resp.items # <<>> THEN Return(Some(resp.items[1])) ELSE Return(None)

\* the body of search_track: the try block and its except clause
search_track(resp) ==
    LET t == SearchTry(resp)
    IN  IF t.out = "raise" /\ ExceptException(t.exc) THEN Return(None) ELSE t

Limit == 1           \* limit=1, the default every caller uses
SearchKey(song, artist) == <<song, artist, Limit>>

SearchTrack(song, artist, resp) ==
    /\ status = "ready"
    /\ LET key == SearchKey(song, artist)
       IN  IF searchCache[key].cached
           THEN /\ lookup' = [fn |-> "search_track", key |-> key, external |-> FALSE,
                              res |-> Return(searchCache[key].value)]
                /\ UNCHANGED <<searchCache, searchCalls>>
           ELSE /\ searchCalls[key] < MaxCalls
                /\ searchCalls' = [searchCalls EXCEPT ![key] = @ + 1]
                /\ searchCache' = CacheAfter(searchCache, key, search_track(resp))
                /\ lookup' = [fn |-> "search_track", key |-> key, external |-> TRUE,
                              q |-> Query(song, artist), resp |-> resp,
                              res |-> search_track(resp)]
    /\ UNCHANGED <<featCache, featCalls, ret, view>>
    /\ UNCHANGED catalogVars

\* ----------------------------------------------------- audio_features
wanted == {"danceability", "energy", "valence", "tempo",
           "acousticness", "instrumentalness"}

\* a features object of the provider: the keys it carries
Features(keys) == [kind |-> "dict", keys |-> keys]

\* what sp.audio_features([track_id]) can do
FeatureResponses ==
    {Raise(e) : e \in {"ReadTimeout", "SpotifyOauthError", "SpotifyException"}}
    \cup {[out |-> "return", feats |-> None]}
    \cup {[out |-> "return", feats |-> Some(<<>>)]}
    \cup {[out |-> "return", feats |-> Some(<<None>>)]}
    \cup {[out |-> "return", feats |-> Some(<<Some([kind |-> "str"])>>)]}
    \cup {[out |-> "return", feats |-> Some(<<Some(Features(ks))>>)] :
             ks \in {{}, wanted, wanted \ {"tempo"}}}

\* truthiness of feats[0]: None and the empty dict are falsy
Truthy0(x) == ~x.none /\ (x.v.kind = "dict" => x.v.keys # {})

\* the try block of audio_features; falling out of it reaches "return None"
FeaturesTry(resp) ==
    IF resp.out = "raise" THEN Raise(resp.exc)
    ELSE IF resp.feats.none \/ resp.feats.v = <<>> THEN Return(None)
    ELSE IF ~Truthy0(resp.feats.v[1]) THEN Return(None)
    ELSE IF resp.feats.v[1].v.kind # "dict"
    THEN Raise("AttributeError")       \* feats[0].get on something that has none
    ELSE Return(Some([k \in wanted |->
                        IF k \in resp.feats.v[1].v.keys THEN "number" ELSE "None"]))

\* the body of audio_features: except Exception: pass, then return None
audio_features(resp) ==
    LET t == FeaturesTry(resp)
    IN  IF t.out = "raise" /\ ExceptException(t.exc) THEN Return(None) ELSE t

AudioFeatures(track_id, resp) ==
    /\ status = "ready"
    /\ IF featCache[track_id].cached
       THEN /\ lookup' = [fn |-> "audio_features", key |-> track_id, external |-> FALSE,
                          res |-> Return(featCache[track_id].value)]
            /\ UNCHANGED <<featCache, featCalls>>
       ELSE /\ featCalls[track_id] < MaxCalls
            /\ featCalls' = [featCalls EXCEPT ![track_id] = @ + 1]
            /\ featCache' = CacheAfter(featCache, track_id, audio_features(resp))
            /\ lookup' = [fn |-> "audio_features", key |-> track_id, external |-> TRUE,
                          resp |-> resp, res |-> audio_features(resp)]
    /\ UNCHANGED <<searchCache, searchCalls, ret, view>>
    /\ UNCHANGED catalogVars

\* ------------------------------------------------------------ inputs
A == <<"a">>
B == <<"b">>
Seven == <<"7">>
ZZ == <<"z", "z">>
X == <<"x">>

\* the tables of n rows over the given columns and cells
Tables(columns, n, songs, arts) ==
    LET rows == {[c \in columns |-> IF c = "song" THEN s ELSE a] :
                    s \in songs, a \in arts}
    IN  {[columns |-> columns, rows |-> rs] : rs \in [1..n -> rows]}

\* every symmetric matrix of dimension m with scores 0..top; the diagonal is
\* as free as the rest
Matrices(m, top) ==
    {M \in [1..m -> [1..m -> 0..top]] : \A i, j \in 1..m : M[i][j] = M[j][i]}

\* the matrix whose score falls with the distance of the two row labels
Ramp(m) == [i \in 1..m |-> [j \in 1..m |-> m - (IF i < j THEN j - i ELSE i - j)]]

\* the titles recommend is called with directly
QueryTitles == {StrCell(A), StrCell(B), StrCell(Seven), IntCell(7), StrCell(ZZ)}
QueryKs == (0 - MaxNegK)..MaxK

SearchArgs == {<<A, <<>>>>, <<A, X>>, <<B, <<" ">>>>}
SearchKeys == {SearchKey(p[1], p[2]) : p \in SearchArgs}

\* everything but the two pickles, as it is when the script starts
Boot ==
    /\ status = "boot"
    /\ music = <<>>
    /\ similarity = <<>>
    /\ ret = NoCall
    /\ view = NoRun
    /\ searchCache = [key \in SearchKeys |-> Miss]
    /\ searchCalls = [key \in SearchKeys |-> 0]
    /\ featCache = [id \in TrackIds |-> Miss]
    /\ featCalls = [id \in TrackIds |-> 0]
    /\ lookup = [fn |-> "none"]

\* ------------------------------------------------------ engine runs
\* pickles the load refuses, and a table that has its artist column
OddBoots ==
    LET t == CHOOSE x \in Tables({"song"}, 2, {StrCell(A), StrCell(B)}, {StrCell(X)}) : TRUE
    IN  {<<NoFile, Pickle(Ramp(2))>>, <<Pickle(t), NoFile>>}
        \cup {<<Pickle(u), Pickle(Ramp(2))>> :
                 u \in Tables({"artist"}, 2, {StrCell(A)}, {StrCell(X)})
                       \cup Tables({"song", "artist"}, 2, {StrCell(A)}, {StrCell(X), IntCell(7)})}

Init ==
    /\ \/ \E n \in 0..MaxSongs, m \in 1..MaxDim :
             /\ df \in {Pickle(t) :
                           t \in Tables({"song"}, n, {StrCell(A), StrCell(B)}, {StrCell(X)})}
             /\ simPkl \in {Pickle(M) : M \in Matrices(m, MaxScore)}
       \/ \E b \in OddBoots : df = b[1] /\ simPkl = b[2]
    /\ Boot

NextEngine ==
    \/ LoadData
    \/ \E t \in QueryTitles, k \in QueryKs : Recommend(t, k)

Spec == Init /\ [][NextEngine]_vars

\* ------------------------------------------------------ lookup runs
\* tables whose titles include a number, each with one matrix per dimension
LookupBoots ==
    {<<Pickle(t), Pickle(Ramp(m))>> :
        t \in UNION {Tables({"song"}, n, {StrCell(A), StrCell(B), IntCell(7)}, {StrCell(X)}) :
                        n \in 0..MaxSongs},
        m \in 1..MaxDim}

InitLookup ==
    /\ \E b \in LookupBoots : df = b[1] /\ simPkl = b[2]
    /\ Boot

SpecLookup == InitLookup /\ [][NextEngine]_vars

\* ---------------------------------------------------- scenario runs
\* five songs; song 0 scores its neighbours 1..4 as 0.8, 0.9, 0.8, 0.1 (in
\* tenths) and itself anything from 0.0 to 1.0
ScenarioNeighbours == <<8, 9, 8, 1>>

ScenarioMatrix(self) ==
    [i \in 1..5 |-> [j \in 1..5 |->
        IF i = 1 /\ j = 1 THEN self
        ELSE IF i = 1 THEN ScenarioNeighbours[j - 1]
        ELSE IF j = 1 THEN ScenarioNeighbours[i - 1]
        ELSE IF i = j THEN 10 ELSE 5]]

ScenarioTable ==
    [columns |-> {"song"},
     rows |-> [p \in 1..5 |-> [c \in {"song"} |->
                 <<StrCell(A), StrCell(B), StrCell(Seven), StrCell(ZZ), StrCell(B)>>[p]]]]

InitScenario ==
    /\ df = Pickle(ScenarioTable)
    /\ \E self \in 0..10 : simPkl = Pickle(ScenarioMatrix(self))
    /\ Boot

SpecScenario == InitScenario /\ [][NextEngine]_vars

\* ------------------------------------------------------ filter runs
FilterSongs == 5     \* rows of the table in the filter runs

FilterArtists == {StrCell(X), StrCell(<<" ", "x">>), StrCell(<<"X">>)}
BlankArtists == {StrCell(<<>>), StrCell(<<" ">>)}

\* row p is titled with the digit (p - 1) % 4, so the fifth title repeats the
\* first; the last row has no artist to speak of
FilterTables ==
    {[columns |-> {"song", "artist"},
      rows |-> [p \in 1..FilterSongs |->
                  [c \in {"song", "artist"} |->
                      IF c = "song" THEN StrCell(<<Digit((p - 1) % 4)>>)
                      ELSE IF p = FilterSongs THEN blank ELSE as[p]]]] :
        as \in [1..(FilterSongs - 1) -> FilterArtists], blank \in BlankArtists}

InitFilter ==
    /\ df \in {Pickle(t) : t \in FilterTables}
    /\ simPkl \in {Pickle(Ramp(FilterSongs)), Pickle(Ramp(FilterSongs + 1))}
    /\ Boot

NextFilter ==
    \/ LoadData
    \/ Rerun
    \/ \E i \in 0..(Len(music) - 1), k \in SliderMin..SliderMax,
          f \in {NoFilter} \cup artists : Run(i, k, f)

SpecFilter == InitFilter /\ [][NextFilter]_vars

\* ----------------------------------------------------- gateway runs
InitGateway ==
    /\ df \in {Pickle(t) : t \in Tables({"song", "artist"}, 2, {StrCell(A)}, {StrCell(X)})}
    /\ simPkl = Pickle(Ramp(2))
    /\ Boot

NextGateway ==
    \/ LoadData
    \/ \E p \in SearchArgs, resp \in SearchResponses : SearchTrack(p[1], p[2], resp)
    \/ \E id \in TrackIds, resp \in FeatureResponses : AudioFeatures(id, resp)

SpecGateway == InitGateway /\ [][NextGateway]_vars

\* ============================================================ claims
Returned == ret.called /\ ret.res.out = "return"
Resolved == Returned /\ ret.res.idx # NoIndex
Shown == view.ran /\ view.res.out = "return"

\* the scores recommend ranked: the seed's row of the matrix
SeedRow == similarity[ret.res.idx + 1]

\* the table and the matrix loaded have the same size
SizesAgree == Len(music) = Len(similarity)

\* a list of row labels is in descending order of the seed's score, equal
\* scores in ascending label order
InRankOrder(recs, row) ==
    \A p \in 1..(Len(recs) - 1) :
        \/ row[recs[p] + 1] > row[recs[p + 1] + 1]
        \/ row[recs[p] + 1] = row[recs[p + 1] + 1] /\ recs[p] < recs[p + 1]

\* s can be had from t by dropping elements
RECURSIVE IsSubsequence(_, _)
IsSubsequence(s, t) ==
    IF s = <<>> THEN TRUE
    ELSE IF t = <<>> THEN FALSE
    ELSE IF Head(s) = Head(t) THEN IsSubsequence(Tail(s), Tail(t))
    ELSE IsSubsequence(s, Tail(t))

\* ---- C1: the list recommend returns for a resolved seed never contains
\* the seed's own row label.  (Stated as claimed, on catalogs whose sizes
\* agree; the code drops position 0 of the ranking, whatever row is there.)
C1_SeedExcluded == (Resolved /\ SizesAgree) => ret.res.idx \notin Range(ret.res.recs)

\* What does hold of every list recommend returns: it is in descending
\* order of score, equal scores in ascending label order (TLC finds this to
\* hold under Spec and under SpecScenario).
OutputInRankOrder == Resolved => InRankOrder(ret.res.recs, SeedRow)

\* ---- C2: the list is in descending order of score with ties in ascending
\* label order, and in the five-song scenario (song 0 scoring its neighbours
\* 2: 0.9, 1: 0.8, 3: 0.8, 4: 0.1) recommend(song 0, 3) is exactly [2, 1, 3].
\* (Stated as claimed, for every score song 0 may give itself.)
C2_RankedNeighbours ==
    Resolved =>
        /\ InRankOrder(ret.res.recs, SeedRow)
        /\ (ret.res.idx = 0 /\ ret.k = 3 /\ Len(SeedRow) = 5
            /\ SubSeq(SeedRow, 2, 5) = ScenarioNeighbours)
           => ret.res.recs = <<2, 1, 3>>

\* ---- C3: the list has at most k entries, and exactly k when the catalog
\* has at least k + 1 songs.  (Stated as claimed, for the k >= 0 for which a
\* list of k entries exists.)
C3_LengthIsK ==
    (Resolved /\ ret.k >= 0) =>
        /\ Len(ret.res.recs) <= ret.k
        /\ Len(music) >= ret.k + 1 => Len(ret.res.recs) = ret.k

\* ---- C8: for a resolved seed and k <= 0 the list is empty.  (Stated as
\* claimed, on catalogs whose sizes agree; the code's slice ranked[1 : k + 1]
\* counts a negative stop from the end.)
C8_EmptyForNonPositiveK ==
    (Resolved /\ SizesAgree /\ ret.k <= 0) => ret.res.recs = <<>>

\* ---- C9: a table and a matrix of different sizes are refused at load, so
\* no request is served from such a catalog and every label recommend
\* returns is a row of the table.  (Stated as claimed; load_data compares
\* nothing.)
C9_SizesAgree ==
    /\ status = "ready" => SizesAgree
    /\ Returned => \A i \in Range(ret.res.recs) : i < Len(music)

\* ---- C6: for a title that equals no row's title, recommend returns the
\* empty list, whatever k, raising nothing and without reading the matrix.
C6_UnknownTitle ==
    (ret.called /\ \A p \in 1..Len(music) : music[p].song # PyStr(ret.seed_title))
        => ret.res = [out |-> "return", idx |-> NoIndex, read |-> FALSE, recs |-> <<>>]

\* C6's case: an unknown title asked of a catalog that has rows, with k > 0
C6_Witness ==
    /\ ret.called
    /\ \A p \in 1..Len(music) : music[p].song # PyStr(ret.seed_title)
    /\ Len(music) > 0 /\ Len(similarity) > 1 /\ ret.k > 0
    /\ ret.res.recs = <<>>

\* ---- C7: the list the page shows under an artist filter is a subsequence
\* of the unfiltered top-k list for the same seed and k: same relative
\* order, nothing from outside the top k.
C7_FilterAfterCut ==
    Shown => IsSubsequence(view.res.recs,
                 recommend(StrCell(music[view.sel_idx + 1].song), view.top_k).recs)

\* C7's case: the cut to k dropped a row of the chosen artist, and the filter
\* dropped some but not all of the top k
C7_Witness ==
    /\ Shown
    /\ view.artist_filter # NoFilter
    /\ Len(view.res.ranked) = view.top_k
    /\ 0 < Len(view.res.recs) /\ Len(view.res.recs) < view.top_k
    /\ \E i \in 0..(Len(music) - 1) :
          /\ i \notin Range(view.res.ranked)
          /\ i # _index_of_song(StrCell(music[view.sel_idx + 1].song))
          /\ passes_artist(i, view.artist_filter)

\* ---- C10: under an offered artist filter a ranked row is kept if and only
\* if its artist equals the chosen value once whitespace is trimmed, case
\* respected; so a row whose stored artist is the very string the option was
\* built from is kept, leading or trailing whitespace or not.  (Stated as
\* claimed; the code trims the row's artist and not the option.)
C10_OwnOptionKept ==
    (Shown /\ view.artist_filter # NoFilter) =>
        \A i \in Range(view.res.ranked) :
            /\ i \in Range(view.res.recs)
                  <=> Strip(music[i + 1].artist) = Strip(view.artist_filter)
            /\ music[i + 1].artist = view.artist_filter => i \in Range(view.res.recs)

\* ---- C4: sp.search is requested at most once per (title, artist) key; the
\* first call stores its outcome (the record found, or None when nothing
\* matched or the request failed), a later call returns the stored value
\* without a request, and a stored entry never changes.
C4_State ==
    /\ \A key \in SearchKeys :
          /\ searchCalls[key] <= 1
          /\ searchCache[key].cached <=> searchCalls[key] = 1
    /\ (lookup.fn = "search_track" /\ lookup.external) =>
          /\ lookup.res.out = "return"
          /\ searchCache[lookup.key] = Hit(lookup.res.value)
          /\ lookup.res.value =
                IF lookup.resp.out = "return" /\ lookup.resp.items # <<>>
                THEN Some(lookup.resp.items[1]) ELSE None
    /\ (lookup.fn = "search_track" /\ ~lookup.external) =>
          lookup.res = Return(searchCache[lookup.key].value)

C4_Step ==
    \A key \in SearchKeys :
        /\ searchCache[key].cached => searchCache'[key] = searchCache[key]
        /\ searchCache[key].cached => searchCalls'[key] = searchCalls[key]

\* C4, in full: C4_State in every state and C4_Step in every step
C4_OneSearchPerKey == [](C4_State) /\ [][C4_Step]_vars

\* C4's case: a later call answered from a stored None, one request made
C4_Witness ==
    /\ lookup.fn = "search_track" /\ ~lookup.external
    /\ lookup.res = Return(None)
    /\ searchCalls[lookup.key] = 1

\* ---- C5: whatever the provider does (a record, no match, a malformed
\* response, a timeout, an auth or rate-limit error), search_track and
\* audio_features return a record or feature set, or None, and raise nothing.
C5_NothingRaised ==
    lookup.fn \in {"search_track", "audio_features"} =>
        /\ lookup.res.out = "return"
        /\ \/ lookup.res.value = None
           \/ lookup.fn = "search_track"
              /\ lookup.res.value \in {Some(Track(id)) : id \in TrackIds}
           \/ lookup.fn = "audio_features" /\ ~lookup.res.value.none
              /\ DOMAIN lookup.res.value.v = wanted

\* C5's case: the provider's answer was not even a dict, and the caller got None
C5_Witness ==
    /\ lookup.fn = "search_track" /\ lookup.external
    /\ lookup.resp.out = "return" /\ lookup.resp.shape = "tracks is None"
    /\ lookup.res = Return(None)

=============================================================================
